---- MODULE Spec2Model ----
(***************************************************************************)
(* Loan origination and payment-schedule engine of delinquencytracker.     *)
(*                                                                         *)
(* The store is the three tables the persistence functions write (users,   *)
(* loans, payments).  An origination is a sequence of persistence calls;   *)
(* each call is one atomic step and may fail.  Instants are tuples         *)
(* <<year, month, day, tick>> in UTC, compared lexicographically; the zero *)
(* instant of time.Time is <<1, 1, 1, 0>>; a tick is half a day.  Amounts   *)
(* (float64) are exact rationals <<numerator, denominator>> in lowest      *)
(* terms; annual rates are given in whole percents.                        *)
(***************************************************************************)
EXTENDS Integers, Sequences, FiniteSets, TLC

\* ------------------------------------------------------------------ bounds
MaxTerm == 2
MaxUsers == 1
MaxLoans == 1
MaxDirectOps == 1
MaxOffset == 25
MaxMonths == 13
MaxReadLoans == 2
MaxOwnedLoans == 2

\* ------------------------------------------------------------------ inputs
Procs == {1, 2}
\* The caller of the specifications whose calls do not overlap.
Sequential == {1}

ZeroTime == <<1, 1, 1, 0>>

\* The instants the wall clock passes through, in order: the midnight that
\* starts 2024-01-31, and an instant during 2024-02-01.
ClockTimes == << <<2024, 1, 31, 0>>, <<2024, 2, 1, 1>> >>

\* Explicit dateTaken arguments: unset, backdated, forward-dated.
DateTakens == { ZeroTime, <<2023, 12, 31, 0>>, <<2024, 11, 30, 1>> }

\* Loan parameters <<totalAmount, interestRate, termMonths, dayDue>> that
\* validateLoanParameters accepts ...
ValidLoanParams ==
    {<<1200, 0, t, 31>> : t \in 1..MaxTerm} \cup {<<1200, 120, t, 1>> : t \in 1..MaxTerm}

\* ... and ones with a field that it has to reject.
InvalidLoanParams ==
    { <<0, 0, 1, 31>>, <<-1200, 120, 1, 1>>, <<1200, -120, 1, 1>>,
      <<1200, 0, 0, 31>>, <<1200, 120, -1, 1>>, <<1200, 0, 1, 0>>,
      <<1200, 120, MaxTerm, 32>>, <<0, -120, 0, 32>> }

LoanParams == ValidLoanParams \cup InvalidLoanParams

Statuses == {"active", "refinanced"}

\* Start dates for calculateDueDate: month ends, a year end, and starts whose
\* following Februaries are in 1900 (no leap year) and 2000 (a leap year).
StartDates ==
    { <<2024, 1, 31, 0>>, <<2024, 1, 15, 0>>, <<2023, 12, 31, 1>>,
      <<2023, 11, 30, 0>>, <<1899, 12, 28, 0>>, <<1999, 12, 1, 1>> }

DayDues == 1..31

\* Installments the payment methods are called on.  The due dates lie 5 days
\* and half a day before the first clock instant, at it and after the second
\* one; there are the zero instant and an instant before it.  The amounts
\* are unpaid, partly paid, paid and overpaid.
PaymentDueDates ==
    { <<2024, 1, 26, 0>>, <<2024, 1, 30, 1>>, <<2024, 1, 31, 0>>, <<2024, 2, 5, 0>>,
      ZeroTime, <<0, 12, 31, 0>> }

PaymentPaidDates ==
    { ZeroTime, <<2024, 1, 25, 1>>, <<2024, 1, 26, 0>>, <<2024, 1, 26, 1>>,
      <<2024, 2, 5, 0>> }

PaymentAmounts == { <<100, 0>>, <<100, 30>>, <<100, 100>>, <<100, 150>> }

PaymentStructs ==
    { [ID |-> 0, LoanID |-> 0, PaymentNumber |-> 1, AmountDue |-> <<a[1], 1>>,
       AmountPaid |-> <<a[2], 1>>, DueDate |-> d, PaidDate |-> pd] :
          a \in PaymentAmounts, d \in PaymentDueDates, pd \in PaymentPaidDates }

\* Pairs <<amountDue, amountPaid>> for the methods that look at the amounts
\* only: unpaid, part paid, paid, overpaid, nothing due, and negative amounts,
\* which the payment struct does not exclude.
StatusAmounts ==
    PaymentAmounts \cup { <<0, 0>>, <<0, 50>>, <<100, -10>>, <<-5, -10>>, <<-5, 0>> }

StatusStructs ==
    { [ID |-> 0, LoanID |-> 0, PaymentNumber |-> 1, AmountDue |-> <<a[1], 1>>,
       AmountPaid |-> <<a[2], 1>>, DueDate |-> <<2024, 1, 26, 0>>,
       PaidDate |-> ZeroTime] : a \in StatusAmounts }

\* Arguments <<principal, annualRate, months>> of calculateMonthlyPayment:
\* no interest and monthly rates of 1/2, 1 and 2 over up to MaxMonths months,
\* and a monthly rate of 1/10 over the terms of the originations.
Principals == {1, 7, 12}

PaymentArgs ==
    {<<P, R, n>> : P \in Principals, R \in {0, 600, 1200, 2400}, n \in 1..MaxMonths}
        \cup {<<P, 120, n>> : P \in Principals, n \in 1..MaxTerm}

\* ------------------------------------------------------------- time.Time
Before(a, b) ==
    \/ a[1] < b[1]
    \/ a[1] = b[1] /\ a[2] < b[2]
    \/ a[1] = b[1] /\ a[2] = b[2] /\ a[3] < b[3]
    \/ a[1] = b[1] /\ a[2] = b[2] /\ a[3] = b[3] /\ a[4] < b[4]

IsZero(t) == t = ZeroTime

IsLeap(year) == (year % 4 = 0 /\ year % 100 # 0) \/ year % 400 = 0

DaysIn(year, month) ==
    IF month = 2 THEN (IF IsLeap(year) THEN 29 ELSE 28)
    ELSE IF month \in {4, 6, 9, 11} THEN 30 ELSE 31

\* The day normalisation of time.Date: a day below 1 or above the month's
\* length moves into the previous or the next month.
RECURSIVE NormalizeDay(_, _, _)
NormalizeDay(year, month, day) ==
    IF day < 1
    THEN LET py == IF month = 1 THEN year - 1 ELSE year
             pm == IF month = 1 THEN 12 ELSE month - 1
         IN  NormalizeDay(py, pm, day + DaysIn(py, pm))
    ELSE IF day > DaysIn(year, month)
    THEN LET ny == IF month = 12 THEN year + 1 ELSE year
             nm == IF month = 12 THEN 1 ELSE month + 1
         IN  NormalizeDay(ny, nm, day - DaysIn(year, month))
    ELSE <<year, month, day, 0>>

\* time.Date(year, month, day, 0, 0, 0, 0, time.UTC) for month >= 1: a month
\* above 12 moves into the following years, then the day is normalised.
GoDate(year, month, day) ==
    NormalizeDay(year + ((month - 1) \div 12), ((month - 1) % 12) + 1, day)

After(a, b) == Before(b, a)

\* The number of ticks of a day (a tick is 12 hours).
TicksPerDay == 2

\* The largest time.Duration (2^63 - 1 nanoseconds, a little less than
\* 106752 days) in whole ticks.
MaxDurationTicks == 213503

RECURSIVE DaysBeforeMonth(_, _)
DaysBeforeMonth(year, month) ==
    IF month = 1 THEN 0 ELSE DaysBeforeMonth(year, month - 1) + DaysIn(year, month - 1)

\* The number of days from 0001-01-01 to the day of t.
DayNumber(t) ==
    LET y == t[1] - 1
    IN  365 * y + (y \div 4) - (y \div 100) + (y \div 400)
            + DaysBeforeMonth(t[1], t[2]) + (t[3] - 1)

\* t.Sub(u) in ticks: the difference, or the largest (smallest) duration
\* when the difference is out of the range of time.Duration.
Sub(t, u) ==
    LET d == (DayNumber(t) - DayNumber(u)) * TicksPerDay + (t[4] - u[4])
    IN  IF d > MaxDurationTicks THEN MaxDurationTicks
        ELSE IF d < -MaxDurationTicks THEN -MaxDurationTicks
        ELSE d

\* int(duration.Hours() / 24) for a duration that is not negative.
WholeDays(duration) == duration \div TicksPerDay

\* --------------------------------------------------------- pure functions
RECURSIVE GCD(_, _)
GCD(a, b) == IF b = 0 THEN a ELSE GCD(b, a % b)

RECURSIVE Pow(_, _)
Pow(x, n) == IF n = 0 THEN 1 ELSE x * Pow(x, n - 1)

\* float64 amounts as exact rationals: n / d for d > 0, in lowest terms.
Rat(n, d) ==
    LET g == GCD(IF n < 0 THEN -n ELSE n, d)
    IN  <<n \div g, d \div g>>

FromInt(n) == <<n, 1>>

RatLess(a, b) == a[1] * b[2] < b[1] * a[2]

RatSub(a, b) == Rat(a[1] * b[2] - b[1] * a[2], a[2] * b[2])

RatMulInt(a, k) == Rat(a[1] * k, a[2])

RatAdd(a, b) == Rat(a[1] * b[2] + b[1] * a[2], a[2] * b[2])

\* The monthly rate annualRate / 12 as a reduced fraction <<num, den>>
\* (annualRate is in percent, so the rate is annualRate / 1200).
MonthlyRate(annualRate) == Rat(annualRate, 1200)

\* calculateMonthlyPayment whose zero-rate division is an integer division.
calculateMonthlyPaymentTruncated(principal, annualRate, months) ==
    IF annualRate = 0 THEN FromInt(principal \div months)
    ELSE LET r == MonthlyRate(annualRate)
             X == Pow(r[1] + r[2], months)
             Y == Pow(r[2], months)
             factor == Rat(r[1] * X, r[2] * (X - Y))
         IN  Rat(principal * factor[1], factor[2])

\* calculateMonthlyPayment that charges no interest.
calculateMonthlyPaymentNoInterest(principal, annualRate, months) ==
    Rat(principal, months)

\* principal / months for a zero rate, otherwise
\* principal * (r * (1 + r)^months) / ((1 + r)^months - 1) with r = num / den:
\* (1 + r)^months is X / Y for X = (num + den)^months and Y = den^months.
calculateMonthlyPayment(principal, annualRate, months) ==
    IF annualRate = 0 THEN Rat(principal, months)
    ELSE LET r == MonthlyRate(annualRate)
             X == Pow(r[1] + r[2], months)
             Y == Pow(r[2], months)
             factor == Rat(r[1] * X, r[2] * (X - Y))
         IN  Rat(principal * factor[1], factor[2])

\* The month normalisation that forgets to advance the year.
RECURSIVE NormalizeMonthKeepsYear(_, _)
NormalizeMonthKeepsYear(year, month) ==
    IF month > 12 THEN NormalizeMonthKeepsYear(year, month - 12) ELSE <<year, month>>

\* calculateDueDate's loop: month -= 12, year++ while month > 12.
RECURSIVE NormalizeMonth(_, _)
NormalizeMonth(year, month) ==
    IF month > 12 THEN NormalizeMonth(year + 1, month - 12) ELSE <<year, month>>

\* calculateDueDate without the clamp: time.Date is given dayDue as it is.
calculateDueDateNoClamp(startDate, termMonths, dayDue) ==
    LET ym == NormalizeMonth(startDate[1], startDate[2] + termMonths)
    IN  GoDate(ym[1], ym[2], dayDue)

\* calculateDueDate counting the months from 0: the first installment falls
\* in the month of the start date.
calculateDueDateFromStartMonth(startDate, termMonths, dayDue) ==
    LET ym == NormalizeMonth(startDate[1], startDate[2] + termMonths - 1)
        lastDayOfMonth == GoDate(ym[1], ym[2] + 1, 0)[3]
        actualDay == IF dayDue > lastDayOfMonth THEN lastDayOfMonth ELSE dayDue
    IN  GoDate(ym[1], ym[2], actualDay)

calculateDueDate(startDate, termMonths, dayDue) ==
    LET ym == NormalizeMonth(startDate[1], startDate[2] + termMonths)
        lastDayOfMonth == GoDate(ym[1], ym[2] + 1, 0)[3]
        actualDay == IF dayDue > lastDayOfMonth THEN lastDayOfMonth ELSE dayDue
    IN  GoDate(ym[1], ym[2], actualDay)

\* validateLoanParameters without the upper limit of dayDue.
validateNoDayDueLimit(totalAmount, interestRate, termMonths, dayDue, dateTaken) ==
    IF totalAmount <= 0 THEN "totalAmount"
    ELSE IF interestRate < 0 THEN "interestRate"
    ELSE IF termMonths <= 0 THEN "termMonths"
    ELSE IF dayDue < 1 THEN "dayDue"
    ELSE IF IsZero(dateTaken) THEN "dateTaken"
    ELSE "nil"

\* validateLoanParameters rejecting a zero interest rate.
validateRateMustBePositive(totalAmount, interestRate, termMonths, dayDue, dateTaken) ==
    IF totalAmount <= 0 THEN "totalAmount"
    ELSE IF interestRate <= 0 THEN "interestRate"
    ELSE IF termMonths <= 0 THEN "termMonths"
    ELSE IF dayDue < 1 \/ dayDue > 31 THEN "dayDue"
    ELSE IF IsZero(dateTaken) THEN "dateTaken"
    ELSE "nil"

\* The error of validateLoanParameters: the name of the first offending
\* field, or "nil".
validateLoanParameters(totalAmount, interestRate, termMonths, dayDue, dateTaken) ==
    IF totalAmount <= 0 THEN "totalAmount"
    ELSE IF interestRate < 0 THEN "interestRate"
    ELSE IF termMonths <= 0 THEN "termMonths"
    ELSE IF dayDue < 1 \/ dayDue > 31 THEN "dayDue"
    ELSE IF IsZero(dateTaken) THEN "dateTaken"
    ELSE "nil"

\* The auto-settling test with "not after now" in place of "before now".
ShouldAutoPayNotAfter(autoPayPastDue, dueDate, now) ==
    autoPayPastDue /\ ~Before(now, dueDate)

\* The auto-settling test without the flag.
ShouldAutoPayAlways(autoPayPastDue, dueDate, now) ==
    Before(dueDate, now)

\* createPaymentSchedule's test for auto-settling an installment.
ShouldAutoPay(autoPayPastDue, dueDate, now) ==
    autoPayPastDue /\ Before(dueDate, now)

\* The loop condition stopping one installment early.
LoopCondStrict(i, termMonths) == i < termMonths

\* createPaymentSchedule's loop condition.
LoopCond(i, termMonths) == i <= termMonths


\* ---------------------------------------------------- methods of payment
IsFullyPaid(pm) == ~RatLess(pm.AmountPaid, pm.AmountDue)

\* IsOverdue treating the due instant itself as overdue.
IsOverdueNotBefore(pm, now) == ~Before(now, pm.DueDate) /\ ~IsFullyPaid(pm)

\* IsOverdue that holds for less than a day after the due instant.
IsOverdueForADay(pm, now) ==
    /\ After(now, pm.DueDate)
    /\ Sub(now, pm.DueDate) < TicksPerDay
    /\ ~IsFullyPaid(pm)

\* IsOverdue, now being the instant it reads from the clock.
IsOverdue(pm, now) == After(now, pm.DueDate) /\ ~IsFullyPaid(pm)

\* RemainingBalance without the test for a negative difference.
RemainingBalanceUnclamped(pm) == RatSub(pm.AmountDue, pm.AmountPaid)

RemainingBalance(pm) ==
    LET remaining == RatSub(pm.AmountDue, pm.AmountPaid)
    IN  IF RatLess(remaining, FromInt(0)) THEN FromInt(0) ELSE remaining

CheckLate(pm) == After(pm.PaidDate, pm.DueDate)

\* IsPartiallyPaid counting a payment of the whole amount as partial.
IsPartiallyPaidInclusive(pm) ==
    RatLess(FromInt(0), pm.AmountPaid) /\ ~RatLess(pm.AmountDue, pm.AmountPaid)

IsPartiallyPaid(pm) ==
    RatLess(FromInt(0), pm.AmountPaid) /\ RatLess(pm.AmountPaid, pm.AmountDue)

IsPaid(pm) == RatLess(FromInt(0), pm.AmountPaid)

\* ------------------------------------------------------------------ state
VARIABLES
    clock,          \* index into ClockTimes: the instant time.Now() returns
    users,          \* rows of table users (their ids)
    loans,          \* rows of table loans
    payments,       \* rows of table payments
    nextUserID,     \* next id the users sequence hands out
    nextLoanID,     \* next id the loans sequence hands out
    nextPaymentID,  \* next id the payments sequence hands out
    directOps,      \* number of direct persistence calls made so far
    pc,             \* position of each caller inside an origination
    call,           \* the entry point a caller is in and its arguments
    usr,            \* local usr (the created user's id, 0 before)
    ln,             \* local ln (the created loan row, NoLoan before)
    sched,          \* locals of createPaymentSchedule
    err,            \* the error the call returns
    ret,            \* the value the call returns
    pre,            \* the store as it was when the call was entered
    dbFailed,       \* whether a persistence call of this call has failed
    eval            \* the last call of a pure function or payment method

store == <<users, loans, payments>>

vars == <<clock, users, loans, payments, nextUserID, nextLoanID, nextPaymentID,
          directOps, pc, call, usr, ln, sched, err, ret, pre, dbFailed, eval>>

Now == ClockTimes[clock]

NoLoan == [ID |-> 0, UserID |-> 0, TotalAmount |-> 0, InterestRate |-> 0,
           TermMonths |-> 0, DayDue |-> 0, Status |-> "", DateTaken |-> ZeroTime]

NoCall == [op |-> "", userID |-> 0, loanID |-> 0, totalAmount |-> 0, interestRate |-> 0,
           termMonths |-> 0, dayDue |-> 0, dateTaken |-> ZeroTime,
           autoPayPastDue |-> FALSE]

NoSched == [monthlyPayment |-> <<0, 1>>, now |-> ZeroTime, i |-> 0, payments |-> <<>>]

NoEval == [op |-> "", in |-> <<>>, out |-> 0]

NoErr == [kind |-> "nil", field |-> "", userID |-> 0, loanID |-> 0, paymentNum |-> 0]

\* User{} and Loan{}: the zero values returned next to an error.
EmptyUser == [ID |-> 0, Loans |-> <<>>]
EmptyLoan == [ID |-> 0, UserID |-> 0, TotalAmount |-> 0, InterestRate |-> 0,
              TermMonths |-> 0, DayDue |-> 0, Status |-> "", DateTaken |-> ZeroTime,
              Payments |-> <<>>]

WithPayments(l, ps) ==
    [ID |-> l.ID, UserID |-> l.UserID, TotalAmount |-> l.TotalAmount,
     InterestRate |-> l.InterestRate, TermMonths |-> l.TermMonths,
     DayDue |-> l.DayDue, Status |-> l.Status, DateTaken |-> l.DateTaken,
     Payments |-> ps]

EmptyOf(op) ==
    IF op \in {"InitializeUserWithLoan", "GetFullUserByID"} THEN EmptyUser ELSE EmptyLoan

Init ==
    /\ clock = 1
    /\ users = {}
    /\ loans = {}
    /\ payments = {}
    /\ nextUserID = 1
    /\ nextLoanID = 1
    /\ nextPaymentID = 1
    /\ directOps = 0
    /\ pc = [p \in Procs |-> "idle"]
    /\ call = [p \in Procs |-> NoCall]
    /\ usr = [p \in Procs |-> 0]
    /\ ln = [p \in Procs |-> NoLoan]
    /\ sched = [p \in Procs |-> NoSched]
    /\ err = [p \in Procs |-> NoErr]
    /\ ret = [p \in Procs |-> EmptyUser]
    /\ pre = [p \in Procs |-> <<{}, {}, {}>>]
    /\ dbFailed = [p \in Procs |-> FALSE]
    /\ eval = NoEval

\* --------------------------------------------------------------- the clock
Tick ==
    /\ clock < Len(ClockTimes)
    /\ clock' = clock + 1
    /\ UNCHANGED <<users, loans, payments, nextUserID, nextLoanID, nextPaymentID,
                   directOps, pc, call, usr, ln, sched, err, ret, pre, dbFailed,
                   eval>>

\* ------------------------------------------------------------ originations
\* A call returns: pc = "done" with its error and value.
\* A failing call that returns what it has built so far.
FailReturnsBuilt(p, e, op) ==
    /\ pc' = [pc EXCEPT ![p] = "done"]
    /\ err' = [err EXCEPT ![p] = e]
    /\ ret' = [ret EXCEPT ![p] =
                 IF op = "InitializeUserWithLoan"
                 THEN [ID |-> usr[p], Loans |-> <<>>]
                 ELSE WithPayments(ln[p], sched[p].payments)]

Fail(p, e, op) ==
    /\ pc' = [pc EXCEPT ![p] = "done"]
    /\ err' = [err EXCEPT ![p] = e]
    /\ ret' = [ret EXCEPT ![p] = EmptyOf(op)]

\* Entry of InitializeUserWithLoan: normalise, validate, then go on to step 1.
InitializeUserWithLoan(p, totalAmount, interestRate, termMonths, dayDue, dateTaken, autoPayPastDue) ==
    LET v == validateLoanParameters(totalAmount, interestRate, termMonths, dayDue, dateTaken)
    IN  /\ pc[p] = "idle"
        /\ call' = [call EXCEPT ![p] =
                      [op |-> "InitializeUserWithLoan", userID |-> 0, loanID |-> 0,
                       totalAmount |-> totalAmount, interestRate |-> interestRate,
                       termMonths |-> termMonths, dayDue |-> dayDue,
                       dateTaken |-> dateTaken, autoPayPastDue |-> autoPayPastDue]]
        /\ pre' = [pre EXCEPT ![p] = store]
        /\ IF v # "nil"
           THEN Fail(p, [NoErr EXCEPT !.kind = "invalid loan parameters", !.field = v],
                     "InitializeUserWithLoan")
           ELSE /\ pc' = [pc EXCEPT ![p] = "CreateUser"]
                /\ UNCHANGED <<err, ret>>
        /\ UNCHANGED <<eval, clock, users, loans, payments, nextUserID, nextLoanID,
                       nextPaymentID, directOps, usr, ln, sched, dbFailed>>

\* Entry of AddLoanToExistingUser.
AddLoanToExistingUser(p, userID, totalAmount, interestRate, termMonths, dayDue, dateTaken, autoPayPastDue) ==
    LET v == validateLoanParameters(totalAmount, interestRate, termMonths, dayDue, dateTaken)
    IN  /\ pc[p] = "idle"
        /\ call' = [call EXCEPT ![p] =
                      [op |-> "AddLoanToExistingUser", userID |-> userID, loanID |-> 0,
                       totalAmount |-> totalAmount, interestRate |-> interestRate,
                       termMonths |-> termMonths, dayDue |-> dayDue,
                       dateTaken |-> dateTaken, autoPayPastDue |-> autoPayPastDue]]
        /\ pre' = [pre EXCEPT ![p] = store]
        /\ IF v # "nil"
           THEN Fail(p, [NoErr EXCEPT !.kind = "invalid loan parameters", !.field = v],
                     "AddLoanToExistingUser")
           ELSE /\ pc' = [pc EXCEPT ![p] = "GetUserByID"]
                /\ UNCHANGED <<err, ret>>
        /\ UNCHANGED <<eval, clock, users, loans, payments, nextUserID, nextLoanID,
                       nextPaymentID, directOps, usr, ln, sched, dbFailed>>


InitializeUserWithLoanNow(p, totalAmount, interestRate, termMonths, dayDue) ==
    InitializeUserWithLoan(p, totalAmount, interestRate, termMonths, dayDue, Now, FALSE)

InitializeUserWithLoanNowAutoPay(p, totalAmount, interestRate, termMonths, dayDue, autoPayPastDue) ==
    InitializeUserWithLoan(p, totalAmount, interestRate, termMonths, dayDue, Now, autoPayPastDue)

AddLoanToExistingUserNow(p, userID, totalAmount, interestRate, termMonths, dayDue) ==
    AddLoanToExistingUser(p, userID, totalAmount, interestRate, termMonths, dayDue, Now, FALSE)

AddLoanToExistingUserNowAutoPay(p, userID, totalAmount, interestRate, termMonths, dayDue, autoPayPastDue) ==
    AddLoanToExistingUser(p, userID, totalAmount, interestRate, termMonths, dayDue, Now, autoPayPastDue)

\* Step 1 of InitializeUserWithLoan: CreateUser inserts a row or fails.
CreateUser(p) ==
    /\ pc[p] = "CreateUser"
    /\ \E ok \in BOOLEAN :
         IF ok
         THEN /\ users' = users \cup {nextUserID}
              /\ nextUserID' = nextUserID + 1
              /\ usr' = [usr EXCEPT ![p] = nextUserID]
              /\ pc' = [pc EXCEPT ![p] = "CreateLoan"]
              /\ UNCHANGED <<err, ret, dbFailed>>
         ELSE /\ Fail(p, [NoErr EXCEPT !.kind = "failed to create User"], call[p].op)
              /\ dbFailed' = [dbFailed EXCEPT ![p] = TRUE]
              /\ UNCHANGED <<users, nextUserID, usr>>
    /\ UNCHANGED <<eval, clock, loans, payments, nextLoanID, nextPaymentID,
                   directOps, call, ln, sched, pre>>

\* GetUserByID whose missing row is not reported: the call goes on.
GetUserByIDNoRowsIgnored(p) ==
    /\ pc[p] = "GetUserByID"
    /\ \E ok \in BOOLEAN :
         IF ok
         THEN /\ pc' = [pc EXCEPT ![p] = "CreateLoan"]
              /\ UNCHANGED <<err, ret, dbFailed>>
         ELSE /\ Fail(p, [NoErr EXCEPT !.kind = "User not found",
                                       !.userID = call[p].userID], call[p].op)
              /\ dbFailed' = [dbFailed EXCEPT ![p] = TRUE]
    /\ UNCHANGED <<eval, clock, users, loans, payments, nextUserID, nextLoanID,
                   nextPaymentID, directOps, call, usr, ln, sched, pre>>

\* Step 1 of AddLoanToExistingUser: GetUserByID finds the row, finds none
\* (sql.ErrNoRows) or fails; both errors are wrapped as "User %d not found".
GetUserByID(p) ==
    /\ pc[p] = "GetUserByID"
    /\ \E ok \in BOOLEAN :
         IF call[p].userID \in users /\ ok
         THEN /\ pc' = [pc EXCEPT ![p] = "CreateLoan"]
              /\ UNCHANGED <<err, ret, dbFailed>>
         ELSE /\ Fail(p, [NoErr EXCEPT !.kind = "User not found",
                                       !.userID = call[p].userID], call[p].op)
              /\ dbFailed' = [dbFailed EXCEPT ![p] = (call[p].userID \in users)]
    /\ UNCHANGED <<eval, clock, users, loans, payments, nextUserID, nextLoanID,
                   nextPaymentID, directOps, call, usr, ln, sched, pre>>

\* ------------------------------------------------ referential integrity
\* The tables are tied by foreign keys: loans.user_id refers to users.id and
\* payments.loan_id refers to loans.id. An insert whose referenced row is
\* missing is rejected by the database.

\* A loans table without a foreign key to users.
NoUserForeignKey(userID) == TRUE

UserForeignKey(userID) == userID \in users

LoanForeignKey(loanID) == \E l \in loans : l.ID = loanID

\* What the deletion of a referenced row does: it removes the referring rows
\* with it, or it is rejected.
OnDelete == {"cascade", "restrict"}

\* CreateLoan's step with a clean-up: a failure deletes the user just created.
CreateLoanCleansUp(p) ==
    /\ pc[p] = "CreateLoan"
    /\ \E ok \in BOOLEAN :
         IF ok
         THEN LET row == [ID |-> nextLoanID,
                          UserID |-> IF call[p].op = "InitializeUserWithLoan"
                                     THEN usr[p] ELSE call[p].userID,
                          TotalAmount |-> call[p].totalAmount,
                          InterestRate |-> call[p].interestRate,
                          TermMonths |-> call[p].termMonths,
                          DayDue |-> call[p].dayDue, Status |-> "active",
                          DateTaken |-> call[p].dateTaken]
              IN  /\ loans' = loans \cup {row}
                  /\ nextLoanID' = nextLoanID + 1
                  /\ ln' = [ln EXCEPT ![p] = row]
                  /\ pc' = [pc EXCEPT ![p] = "createPaymentSchedule"]
                  /\ UNCHANGED <<err, ret, dbFailed, users>>
         ELSE /\ Fail(p, [NoErr EXCEPT !.kind = "failed to create Loan",
                                       !.userID = usr[p]], call[p].op)
              /\ dbFailed' = [dbFailed EXCEPT ![p] = TRUE]
              /\ users' = users \ {usr[p]}
              /\ UNCHANGED <<loans, nextLoanID, ln>>
    /\ UNCHANGED <<eval, clock, payments, nextUserID, nextPaymentID,
                   directOps, call, usr, sched, pre>>

\* The user the new loan is created for: usr.ID in InitializeUserWithLoan,
\* the argument userID in AddLoanToExistingUser.
LoanOwner(p) ==
    IF call[p].op = "InitializeUserWithLoan" THEN usr[p] ELSE call[p].userID

\* Step 2 of both entry points: CreateLoan inserts a row or fails.
CreateLoan(p) ==
    /\ pc[p] = "CreateLoan"
    /\ \E ok \in BOOLEAN :
         IF ok /\ UserForeignKey(LoanOwner(p))
         THEN LET row == [ID |-> nextLoanID, UserID |-> LoanOwner(p),
                          TotalAmount |-> call[p].totalAmount,
                          InterestRate |-> call[p].interestRate,
                          TermMonths |-> call[p].termMonths,
                          DayDue |-> call[p].dayDue, Status |-> "active",
                          DateTaken |-> call[p].dateTaken]
              IN  /\ loans' = loans \cup {row}
                  /\ nextLoanID' = nextLoanID + 1
                  /\ ln' = [ln EXCEPT ![p] = row]
                  /\ pc' = [pc EXCEPT ![p] = "createPaymentSchedule"]
                  /\ UNCHANGED <<err, ret, dbFailed>>
         ELSE /\ Fail(p, [NoErr EXCEPT !.kind = "failed to create Loan",
                                       !.userID = LoanOwner(p)], call[p].op)
              /\ dbFailed' = [dbFailed EXCEPT ![p] = TRUE]
              /\ UNCHANGED <<loans, nextLoanID, ln>>
    /\ UNCHANGED <<eval, clock, users, payments, nextUserID, nextPaymentID,
                   directOps, call, usr, sched, pre>>

\* createPaymentSchedule up to its loop: the monthly payment is computed
\* once and the clock is read once.
createPaymentSchedule(p) ==
    /\ pc[p] = "createPaymentSchedule"
    /\ sched' = [sched EXCEPT ![p] =
                   [monthlyPayment |-> calculateMonthlyPayment(call[p].totalAmount,
                                           call[p].interestRate, call[p].termMonths),
                    now |-> Now, i |-> 1, payments |-> <<>>]]
    /\ pc' = [pc EXCEPT ![p] = "loop"]
    /\ UNCHANGED <<eval, clock, users, loans, payments, nextUserID, nextLoanID,
                   nextPaymentID, directOps, call, usr, ln, err, ret, pre,
                   dbFailed>>

\* The installment row numbered from 0.
ScheduledPaymentFromZero(p) ==
    LET i == sched[p].i
        dueDate == calculateDueDate(call[p].dateTaken, i, call[p].dayDue)
        paid == ShouldAutoPay(call[p].autoPayPastDue, dueDate, sched[p].now)
    IN  [ID |-> nextPaymentID, LoanID |-> ln[p].ID, PaymentNumber |-> i - 1,
         AmountDue |-> sched[p].monthlyPayment,
         AmountPaid |-> IF paid THEN sched[p].monthlyPayment ELSE FromInt(0),
         DueDate |-> dueDate,
         PaidDate |-> IF paid THEN dueDate ELSE ZeroTime]

\* The installment row whose amount due is recomputed for the months left.
ScheduledPaymentRecomputed(p) ==
    LET i == sched[p].i
        dueDate == calculateDueDate(call[p].dateTaken, i, call[p].dayDue)
        paid == ShouldAutoPay(call[p].autoPayPastDue, dueDate, sched[p].now)
    IN  [ID |-> nextPaymentID, LoanID |-> ln[p].ID, PaymentNumber |-> i,
         AmountDue |-> calculateMonthlyPayment(call[p].totalAmount,
                           call[p].interestRate, call[p].termMonths - i + 1),
         AmountPaid |-> IF paid THEN sched[p].monthlyPayment ELSE FromInt(0),
         DueDate |-> dueDate,
         PaidDate |-> IF paid THEN dueDate ELSE ZeroTime]

\* The installment row attached to the loan created last by any caller.
ScheduledPaymentLatestLoan(p) ==
    LET i == sched[p].i
        dueDate == calculateDueDate(call[p].dateTaken, i, call[p].dayDue)
        paid == ShouldAutoPay(call[p].autoPayPastDue, dueDate, sched[p].now)
    IN  [ID |-> nextPaymentID, LoanID |-> nextLoanID - 1, PaymentNumber |-> i,
         AmountDue |-> sched[p].monthlyPayment,
         AmountPaid |-> IF paid THEN sched[p].monthlyPayment ELSE FromInt(0),
         DueDate |-> dueDate,
         PaidDate |-> IF paid THEN dueDate ELSE ZeroTime]

\* The installment row whose auto-settlement is dated at the instant the
\* schedule is built.
ScheduledPaymentPaidNow(p) ==
    LET i == sched[p].i
        dueDate == calculateDueDate(call[p].dateTaken, i, call[p].dayDue)
        paid == ShouldAutoPay(call[p].autoPayPastDue, dueDate, sched[p].now)
    IN  [ID |-> nextPaymentID, LoanID |-> ln[p].ID, PaymentNumber |-> i,
         AmountDue |-> sched[p].monthlyPayment,
         AmountPaid |-> IF paid THEN sched[p].monthlyPayment ELSE FromInt(0),
         DueDate |-> dueDate,
         PaidDate |-> IF paid THEN sched[p].now ELSE ZeroTime]

\* The row createPaymentSchedule asks CreatePayment to insert for installment i.
ScheduledPayment(p) ==
    LET i == sched[p].i
        dueDate == calculateDueDate(call[p].dateTaken, i, call[p].dayDue)
        paid == ShouldAutoPay(call[p].autoPayPastDue, dueDate, sched[p].now)
    IN  [ID |-> nextPaymentID, LoanID |-> ln[p].ID, PaymentNumber |-> i,
         AmountDue |-> sched[p].monthlyPayment,
         AmountPaid |-> IF paid THEN sched[p].monthlyPayment ELSE FromInt(0),
         DueDate |-> dueDate,
         PaidDate |-> IF paid THEN dueDate ELSE ZeroTime]

\* The loop iteration with a rollback: a failure deletes the installments
\* the schedule has created so far.
SchedulePaymentRollsBack(p) ==
    /\ pc[p] = "loop"
    /\ LoopCond(sched[p].i, call[p].termMonths)
    /\ \E ok \in BOOLEAN :
         IF ok /\ LoanForeignKey(ln[p].ID)
         THEN /\ payments' = payments \cup {ScheduledPayment(p)}
              /\ nextPaymentID' = nextPaymentID + 1
              /\ sched' = [sched EXCEPT ![p].i = @ + 1,
                                        ![p].payments = Append(@, ScheduledPayment(p))]
              /\ UNCHANGED <<pc, err, ret, dbFailed>>
         ELSE /\ Fail(p, [NoErr EXCEPT !.kind = "failed to create payment schedule",
                                       !.loanID = ln[p].ID,
                                       !.paymentNum = sched[p].i], call[p].op)
              /\ dbFailed' = [dbFailed EXCEPT ![p] = TRUE]
              /\ payments' = {pm \in payments : pm.LoanID # ln[p].ID}
              /\ UNCHANGED <<nextPaymentID, sched>>
    /\ UNCHANGED <<eval, clock, users, loans, nextUserID, nextLoanID, directOps,
                   call, usr, ln, pre>>

\* The loop iteration with a retry: after a failure the loop tries the same
\* installment again.
SchedulePaymentRetries(p) ==
    /\ pc[p] = "loop"
    /\ LoopCond(sched[p].i, call[p].termMonths)
    /\ \E ok \in BOOLEAN :
         IF ok /\ LoanForeignKey(ln[p].ID)
         THEN /\ payments' = payments \cup {ScheduledPayment(p)}
              /\ nextPaymentID' = nextPaymentID + 1
              /\ sched' = [sched EXCEPT ![p].i = @ + 1,
                                        ![p].payments = Append(@, ScheduledPayment(p))]
              /\ UNCHANGED <<pc, err, ret, dbFailed>>
         ELSE /\ dbFailed' = [dbFailed EXCEPT ![p] = TRUE]
              /\ UNCHANGED <<pc, err, ret, payments, nextPaymentID, sched>>
    /\ UNCHANGED <<eval, clock, users, loans, nextUserID, nextLoanID, directOps,
                   call, usr, ln, pre>>

\* The loop iteration whose error names the number of installments created
\* so far, and the borrower in place of the loan.
SchedulePaymentNamesCreated(p) ==
    /\ pc[p] = "loop"
    /\ LoopCond(sched[p].i, call[p].termMonths)
    /\ \E ok \in BOOLEAN :
         IF ok /\ LoanForeignKey(ln[p].ID)
         THEN /\ payments' = payments \cup {ScheduledPayment(p)}
              /\ nextPaymentID' = nextPaymentID + 1
              /\ sched' = [sched EXCEPT ![p].i = @ + 1,
                                        ![p].payments = Append(@, ScheduledPayment(p))]
              /\ UNCHANGED <<pc, err, ret, dbFailed>>
         ELSE /\ Fail(p, [NoErr EXCEPT !.kind = "failed to create payment schedule",
                                       !.loanID = ln[p].UserID,
                                       !.paymentNum = Len(sched[p].payments)], call[p].op)
              /\ dbFailed' = [dbFailed EXCEPT ![p] = TRUE]
              /\ UNCHANGED <<payments, nextPaymentID, sched>>
    /\ UNCHANGED <<eval, clock, users, loans, nextUserID, nextLoanID, directOps,
                   call, usr, ln, pre>>

\* One iteration of createPaymentSchedule's loop: CreatePayment inserts the
\* row of installment i or fails, which ends the call.
SchedulePayment(p) ==
    /\ pc[p] = "loop"
    /\ LoopCond(sched[p].i, call[p].termMonths)
    /\ \E ok \in BOOLEAN :
         IF ok /\ LoanForeignKey(ln[p].ID)
         THEN /\ payments' = payments \cup {ScheduledPayment(p)}
              /\ nextPaymentID' = nextPaymentID + 1
              /\ sched' = [sched EXCEPT ![p].i = @ + 1,
                                        ![p].payments = Append(@, ScheduledPayment(p))]
              /\ UNCHANGED <<pc, err, ret, dbFailed>>
         ELSE /\ Fail(p, [NoErr EXCEPT !.kind = "failed to create payment schedule",
                                       !.loanID = ln[p].ID,
                                       !.paymentNum = sched[p].i], call[p].op)
              /\ dbFailed' = [dbFailed EXCEPT ![p] = TRUE]
              /\ UNCHANGED <<payments, nextPaymentID, sched>>
    /\ UNCHANGED <<eval, clock, users, loans, nextUserID, nextLoanID, directOps,
                   call, usr, ln, pre>>

\* Step 4: the loop is over, the aggregate is assembled and returned.
Assemble(p) ==
    /\ pc[p] = "loop"
    /\ ~LoopCond(sched[p].i, call[p].termMonths)
    /\ pc' = [pc EXCEPT ![p] = "done"]
    /\ ret' = [ret EXCEPT ![p] =
                 IF call[p].op = "InitializeUserWithLoan"
                 THEN [ID |-> usr[p], Loans |-> <<WithPayments(ln[p], sched[p].payments)>>]
                 ELSE WithPayments(ln[p], sched[p].payments)]
    /\ UNCHANGED <<eval, clock, users, loans, payments, nextUserID, nextLoanID,
                   nextPaymentID, directOps, call, usr, ln, sched, err, pre,
                   dbFailed>>

\* The caller takes the result; the call's locals are gone.
Return(p) ==
    /\ pc[p] = "done"
    /\ pc' = [pc EXCEPT ![p] = "idle"]
    /\ call' = [call EXCEPT ![p] = NoCall]
    /\ usr' = [usr EXCEPT ![p] = 0]
    /\ ln' = [ln EXCEPT ![p] = NoLoan]
    /\ sched' = [sched EXCEPT ![p] = NoSched]
    /\ err' = [err EXCEPT ![p] = NoErr]
    /\ ret' = [ret EXCEPT ![p] = EmptyUser]
    /\ pre' = [pre EXCEPT ![p] = <<{}, {}, {}>>]
    /\ dbFailed' = [dbFailed EXCEPT ![p] = FALSE]
    /\ UNCHANGED <<eval, clock, users, loans, payments, nextUserID, nextLoanID,
                   nextPaymentID, directOps>>

\* ------------------------------------------------------------------ reads
\* The rows ordered by id, the newest first.
RECURSIVE PaymentsNewestFirst(_)
PaymentsNewestFirst(rows) ==
    IF rows = {} THEN <<>>
    ELSE LET first == CHOOSE x \in rows : \A y \in rows : x.ID >= y.ID
         IN  <<first>> \o PaymentsNewestFirst(rows \ {first})

\* The rows of GetPaymentsByLoanID: WHERE loan_id = $1 ORDER BY payment_number.
RECURSIVE PaymentsOrderByNumber(_)
PaymentsOrderByNumber(rows) ==
    IF rows = {} THEN <<>>
    ELSE LET first == CHOOSE x \in rows : \A y \in rows : x.PaymentNumber <= y.PaymentNumber
         IN  <<first>> \o PaymentsOrderByNumber(rows \ {first})

GetPaymentsByLoanID(loanID) ==
    PaymentsOrderByNumber({pm \in payments : pm.LoanID = loanID})

RECURSIVE LoansOrderByID(_)
LoansOrderByID(rows) ==
    IF rows = {} THEN <<>>
    ELSE LET first == CHOOSE x \in rows : \A y \in rows : x.ID <= y.ID
         IN  <<first>> \o LoansOrderByID(rows \ {first})

\* GetLoansByUserID returning at most one row.
GetLoansByUserIDLimitOne(userID) ==
    LET all == LoansOrderByID({l \in loans : l.UserID = userID})
    IN  IF all = <<>> THEN <<>> ELSE <<all[1]>>

\* The rows of GetLoansByUserID: WHERE user_id = $1 ORDER BY id.
GetLoansByUserID(userID) ==
    LoansOrderByID({l \in loans : l.UserID = userID})

\* GetFullUserByID: the user, their loans, and for each loan its payments.
\* Each of the queries may fail; a missing user is an error as well.  The
\* call's queries are one step: there is no other caller to interleave with.
GetFullUserByID(p, userID) ==
    /\ pc[p] = "idle"
    /\ call' = [call EXCEPT ![p] = [NoCall EXCEPT !.op = "GetFullUserByID",
                                                  !.userID = userID]]
    /\ pre' = [pre EXCEPT ![p] = store]
    /\ pc' = [pc EXCEPT ![p] = "done"]
    /\ \E failing \in {"none", "GetUserByID", "GetLoansByUserID", "GetPaymentsByLoanID"} :
         LET rows == GetLoansByUserID(userID)
         IN  IF userID \notin users \/ failing = "GetUserByID"
             THEN /\ err' = [err EXCEPT ![p] = [NoErr EXCEPT !.kind = "failed to get User",
                                                            !.userID = userID]]
                  /\ ret' = [ret EXCEPT ![p] = EmptyUser]
                  /\ dbFailed' = [dbFailed EXCEPT ![p] = (userID \in users)]
             ELSE IF failing = "GetLoansByUserID"
             THEN /\ err' = [err EXCEPT ![p] = [NoErr EXCEPT !.kind = "failed to get loans",
                                                            !.userID = userID]]
                  /\ ret' = [ret EXCEPT ![p] = EmptyUser]
                  /\ dbFailed' = [dbFailed EXCEPT ![p] = TRUE]
             ELSE IF failing = "GetPaymentsByLoanID" /\ rows # <<>>
             THEN /\ \E i \in 1..Len(rows) :
                       err' = [err EXCEPT ![p] = [NoErr EXCEPT !.kind = "failed to get payments",
                                                              !.loanID = rows[i].ID]]
                  /\ ret' = [ret EXCEPT ![p] = EmptyUser]
                  /\ dbFailed' = [dbFailed EXCEPT ![p] = TRUE]
             ELSE /\ err' = [err EXCEPT ![p] = NoErr]
                  /\ ret' = [ret EXCEPT ![p] =
                               [ID |-> userID,
                                Loans |-> [i \in 1..Len(rows) |->
                                    WithPayments(rows[i], GetPaymentsByLoanID(rows[i].ID))]]]
                  /\ dbFailed' = [dbFailed EXCEPT ![p] = FALSE]
    /\ UNCHANGED <<eval, clock, users, loans, payments, nextUserID, nextLoanID,
                   nextPaymentID, directOps, usr, ln, sched>>

\* GetFullLoanByID: the loan row and its payments.
GetFullLoanByID(p, loanID) ==
    /\ pc[p] = "idle"
    /\ call' = [call EXCEPT ![p] = [NoCall EXCEPT !.op = "GetFullLoanByID",
                                                  !.loanID = loanID]]
    /\ pre' = [pre EXCEPT ![p] = store]
    /\ pc' = [pc EXCEPT ![p] = "done"]
    /\ \E failing \in {"none", "GetLoanByLoanID", "GetPaymentsByLoanID"} :
         LET found == {l \in loans : l.ID = loanID}
         IN  IF found = {} \/ failing = "GetLoanByLoanID"
             THEN /\ err' = [err EXCEPT ![p] = [NoErr EXCEPT !.kind = "failed to get Loan",
                                                            !.loanID = loanID]]
                  /\ ret' = [ret EXCEPT ![p] = EmptyLoan]
                  /\ dbFailed' = [dbFailed EXCEPT ![p] = (found # {})]
             ELSE IF failing = "GetPaymentsByLoanID"
             THEN /\ err' = [err EXCEPT ![p] = [NoErr EXCEPT !.kind = "failed to get payments",
                                                            !.loanID = loanID]]
                  /\ ret' = [ret EXCEPT ![p] = EmptyLoan]
                  /\ dbFailed' = [dbFailed EXCEPT ![p] = TRUE]
             ELSE /\ err' = [err EXCEPT ![p] = NoErr]
                  /\ ret' = [ret EXCEPT ![p] =
                               WithPayments(CHOOSE l \in found : TRUE,
                                            GetPaymentsByLoanID(loanID))]
                  /\ dbFailed' = [dbFailed EXCEPT ![p] = FALSE]
    /\ UNCHANGED <<eval, clock, users, loans, payments, nextUserID, nextLoanID,
                   nextPaymentID, directOps, usr, ln, sched>>

\* ------------------------------------------- direct persistence operations
AllIdle == \A p \in Procs : pc[p] = "idle"

\* UpdateLoan overwrites every column of an existing loan row; the payments
\* table is not touched.
UpdateLoan(loanID, totalAmount, interestRate, termMonths, dayDue, status, dateTaken) ==
    /\ AllIdle
    /\ directOps < MaxDirectOps
    /\ directOps' = directOps + 1
    /\ \E l \in loans :
         /\ l.ID = loanID
         /\ loans' = (loans \ {l}) \cup
                {[ID |-> l.ID, UserID |-> l.UserID, TotalAmount |-> totalAmount,
                  InterestRate |-> interestRate, TermMonths |-> termMonths,
                  DayDue |-> dayDue, Status |-> status, DateTaken |-> dateTaken]}
    /\ UNCHANGED <<eval, clock, users, payments, nextUserID, nextLoanID, nextPaymentID,
                   pc, call, usr, ln, sched, err, ret, pre, dbFailed>>

\* CreatePayment called on its own inserts one row.
CreatePayment(loanID, paymentNumber, amountDue, amountPaid, dueDate, paidDate) ==
    /\ AllIdle
    /\ directOps < MaxDirectOps
    /\ directOps' = directOps + 1
    /\ payments' = payments \cup
           {[ID |-> nextPaymentID, LoanID |-> loanID, PaymentNumber |-> paymentNumber,
             AmountDue |-> amountDue, AmountPaid |-> amountPaid,
             DueDate |-> dueDate, PaidDate |-> paidDate]}
    /\ nextPaymentID' = nextPaymentID + 1
    /\ UNCHANGED <<eval, clock, users, loans, nextUserID, nextLoanID, pc, call, usr,
                   ln, sched, err, ret, pre, dbFailed>>

\* DeletePayment removes the row with the given id, if there is one.
DeletePayment(paymentID) ==
    /\ AllIdle
    /\ directOps < MaxDirectOps
    /\ directOps' = directOps + 1
    /\ payments' = {pm \in payments : pm.ID # paymentID}
    /\ UNCHANGED <<eval, clock, users, loans, nextUserID, nextLoanID, nextPaymentID,
                   pc, call, usr, ln, sched, err, ret, pre, dbFailed>>

\* DeleteUser removes the row of the borrower, if there is one. The foreign
\* keys decide what happens when the borrower has loans: the loans and their
\* installments go with it, or the deletion is rejected. It is called at any
\* moment, also while an origination is in progress.
DeleteUser(userID) ==
    /\ directOps < MaxDirectOps
    /\ directOps' = directOps + 1
    /\ \E ok \in BOOLEAN, rule \in OnDelete :
         LET owned == {l \in loans : l.UserID = userID}
         IN  IF ok /\ (owned = {} \/ rule = "cascade")
             THEN /\ users' = users \ {userID}
                  /\ loans' = loans \ owned
                  /\ payments' = {pm \in payments : \A l \in owned : pm.LoanID # l.ID}
             ELSE UNCHANGED <<users, loans, payments>>
    /\ UNCHANGED <<eval, clock, nextUserID, nextLoanID, nextPaymentID, pc, call, usr,
                   ln, sched, err, ret, pre, dbFailed>>

\* ------------------------------------------------------------ specification
\* The calls are capped by the number of rows they may still create.
Originate(p) ==
    /\ nextLoanID <= MaxLoans
    /\ \E lp \in LoanParams :
         \/ /\ nextUserID <= MaxUsers
            /\ \/ \E dateTaken \in DateTakens, autoPayPastDue \in BOOLEAN :
                     InitializeUserWithLoan(p, lp[1], lp[2], lp[3], lp[4],
                                            dateTaken, autoPayPastDue)
               \/ InitializeUserWithLoanNow(p, lp[1], lp[2], lp[3], lp[4])
               \/ \E autoPayPastDue \in BOOLEAN :
                     InitializeUserWithLoanNowAutoPay(p, lp[1], lp[2], lp[3], lp[4],
                                                      autoPayPastDue)
         \/ \E userID \in 1..(MaxUsers + 1) :
              \/ \E dateTaken \in DateTakens, autoPayPastDue \in BOOLEAN :
                   AddLoanToExistingUser(p, userID, lp[1], lp[2], lp[3], lp[4],
                                         dateTaken, autoPayPastDue)
              \/ AddLoanToExistingUserNow(p, userID, lp[1], lp[2], lp[3], lp[4])
              \/ \E autoPayPastDue \in BOOLEAN :
                   AddLoanToExistingUserNowAutoPay(p, userID, lp[1], lp[2], lp[3],
                                                   lp[4], autoPayPastDue)

Direct ==
    \/ \E l \in loans, termMonths \in 1..MaxTerm, status \in Statuses :
         UpdateLoan(l.ID, l.TotalAmount, l.InterestRate, termMonths, l.DayDue,
                    status, l.DateTaken)
    \/ \E l \in loans, paymentNumber \in 1..(MaxTerm + 1) :
         CreatePayment(l.ID, paymentNumber, FromInt(600), FromInt(0),
                       <<2024, 6, 15, 0>>, ZeroTime)
    \/ \E paymentID \in 1..(nextPaymentID - 1) : DeletePayment(paymentID)

\* The persistence steps of the originations in progress.
Step(p) ==
    \/ CreateUser(p)
    \/ GetUserByID(p)
    \/ CreateLoan(p)
    \/ createPaymentSchedule(p)
    \/ SchedulePayment(p)
    \/ Assemble(p)
    \/ Return(p)

\* Originations only.
Next ==
    \/ Tick
    \/ \E p \in Sequential : Originate(p) \/ Step(p)

Spec == Init /\ [][Next]_vars

\* Originations of backdated loans of the longest term, mixed with direct
\* calls of UpdateLoan, CreatePayment and DeletePayment.
OriginateStore(p) ==
    /\ nextLoanID <= MaxLoans
    /\ \E termMonths \in {0, MaxTerm}, autoPayPastDue \in BOOLEAN :
         \/ /\ nextUserID <= MaxUsers
            /\ InitializeUserWithLoan(p, 1200, 0, termMonths, 31, <<2023, 12, 31, 0>>,
                                      autoPayPastDue)
         \/ \E userID \in 1..MaxUsers :
              AddLoanToExistingUser(p, userID, 1200, 0, termMonths, 31,
                                    <<2023, 12, 31, 0>>, autoPayPastDue)

NextStore ==
    \/ Tick
    \/ \E p \in Sequential : OriginateStore(p) \/ Step(p)
    \/ Direct

SpecStore == Init /\ [][NextStore]_vars


\* Originations of backdated zero-interest loans, up to MaxReadLoans loans,
\* and reads of the aggregates between them.
OriginateRead(p) ==
    /\ nextLoanID <= MaxReadLoans
    /\ \E termMonths \in 1..MaxTerm :
         \/ /\ nextUserID <= MaxUsers
            /\ InitializeUserWithLoan(p, 1200, 0, termMonths, 31, <<2023, 12, 31, 0>>,
                                      FALSE)
         \/ \E userID \in 1..MaxUsers :
              AddLoanToExistingUser(p, userID, 1200, 0, termMonths, 31,
                                    <<2023, 12, 31, 0>>, FALSE)

Read(p) ==
    \/ \E userID \in 1..(MaxUsers + 1) : GetFullUserByID(p, userID)
    \/ \E loanID \in 1..(MaxReadLoans + 1) : GetFullLoanByID(p, loanID)

NextRead ==
    \E p \in Sequential : OriginateRead(p) \/ Step(p) \/ Read(p)

SpecRead == Init /\ [][NextRead]_vars

\* Two callers originate loans at the same time; their persistence calls
\* interleave in every order. The callers ask for different rates, so that
\* their installments differ in amount.
RateOf(p) == IF p = 1 THEN 0 ELSE 120

\* The calls in progress that have not created their loan yet.
LoansToCome == Cardinality({q \in Procs : pc[q] # "idle" /\ ln[q] = NoLoan})

\* Each caller originates one loan.
OriginateConc(p) ==
    /\ nextLoanID + LoansToCome <= Cardinality(Procs)
    /\ \E termMonths \in 1..MaxTerm :
         \/ /\ nextUserID + LoansToCome <= Cardinality(Procs)
            /\ InitializeUserWithLoan(p, 1200, RateOf(p), termMonths, 31,
                                      <<2023, 12, 31, 0>>, FALSE)
         \/ \E userID \in users :
              AddLoanToExistingUser(p, userID, 1200, RateOf(p), termMonths, 31,
                                    <<2023, 12, 31, 0>>, FALSE)

NextConc ==
    \E p \in Procs : OriginateConc(p) \/ Step(p)

SpecConc == Init /\ [][NextConc]_vars

\* A borrower is created with a first loan, further loans are added to it,
\* and DeleteUser is called at any moment in between.
OriginateDelete(p) ==
    /\ nextLoanID <= MaxOwnedLoans
    /\ \E termMonths \in 1..MaxTerm :
         \/ /\ nextUserID <= MaxUsers
            /\ InitializeUserWithLoan(p, 1200, 0, termMonths, 31,
                                      <<2023, 12, 31, 0>>, FALSE)
         \/ \E userID \in 1..MaxUsers :
              AddLoanToExistingUser(p, userID, 1200, 0, termMonths, 31,
                                    <<2023, 12, 31, 0>>, FALSE)

NextDelete ==
    \/ \E p \in Sequential : OriginateDelete(p) \/ Step(p)
    \/ \E userID \in 1..MaxUsers : DeleteUser(userID)

SpecDelete == Init /\ [][NextDelete]_vars

\* ------------------------------------------------- calls of pure functions
\* Everything but eval.
machine == <<clock, users, loans, payments, nextUserID, nextLoanID, nextPaymentID,
             directOps, pc, call, usr, ln, sched, err, ret, pre, dbFailed>>

\* A call of calculateDueDate: eval records the arguments and the result.
CallCalculateDueDate(startDate, termMonths, dayDue) ==
    /\ eval = NoEval
    /\ eval' = [op |-> "calculateDueDate", in |-> <<startDate, termMonths, dayDue>>,
                out |-> calculateDueDate(startDate, termMonths, dayDue)]
    /\ UNCHANGED machine

\* A call of calculateMonthlyPayment.
CallCalculateMonthlyPayment(principal, annualRate, months) ==
    /\ eval = NoEval
    /\ eval' = [op |-> "calculateMonthlyPayment",
                in |-> <<principal, annualRate, months>>,
                out |-> calculateMonthlyPayment(principal, annualRate, months)]
    /\ UNCHANGED machine

\* The caller takes the result.
EvalReturn ==
    /\ eval.op \in {"calculateDueDate", "calculateMonthlyPayment"}
    /\ eval' = NoEval
    /\ UNCHANGED machine

NextCalc ==
    \/ \E startDate \in StartDates, termMonths \in 1..MaxOffset, dayDue \in DayDues :
         CallCalculateDueDate(startDate, termMonths, dayDue)
    \/ \E a \in PaymentArgs : CallCalculateMonthlyPayment(a[1], a[2], a[3])
    \/ EvalReturn

SpecCalc == Init /\ [][NextCalc]_vars

\* ------------------------------------------------ calls of payment methods
\* The clock advances while the methods are called.
TickEval ==
    /\ clock < Len(ClockTimes)
    /\ clock' = clock + 1
    /\ UNCHANGED <<users, loans, payments, nextUserID, nextLoanID, nextPaymentID,
                   directOps, pc, call, usr, ln, sched, err, ret, pre, dbFailed,
                   eval>>

\* The caller may call IsOverdue or DaysOverdue again on the installment it
\* has just asked about, with the installment unchanged; prev is then the
\* result of that earlier call, and otherwise the given first value.
Again(op, pm) == eval.op = op /\ eval.in[1] = pm

PrevResult(op, pm, first) == IF Again(op, pm) THEN eval.out ELSE first

\* A call of IsOverdue: it reads the clock once.
CallIsOverdue(pm) ==
    /\ eval = NoEval \/ Again("IsOverdue", pm)
    /\ eval' = [op |-> "IsOverdue", in |-> <<pm, Now>>, out |-> IsOverdue(pm, Now),
                prev |-> PrevResult("IsOverdue", pm, FALSE)]
    /\ UNCHANGED machine

\* A call of DaysOverdue up to its test: IsOverdue reads the clock; when the
\* installment is not overdue the call returns 0.
CallDaysOverdue(pm) ==
    /\ eval = NoEval \/ Again("DaysOverdue", pm)
    /\ eval' = IF ~IsOverdue(pm, Now)
               THEN [op |-> "DaysOverdue", in |-> <<pm, Now, Now>>, out |-> 0,
                     prev |-> PrevResult("DaysOverdue", pm, 0)]
               ELSE [op |-> "DaysOverdue:now", in |-> <<pm, Now>>, out |-> 0,
                     prev |-> PrevResult("DaysOverdue", pm, 0)]
    /\ UNCHANGED machine

\* The rest of DaysOverdue: the clock is read again and the days are counted.
DaysOverdueElapsed ==
    /\ eval.op = "DaysOverdue:now"
    /\ eval' = [op |-> "DaysOverdue", in |-> <<eval.in[1], eval.in[2], Now>>,
                out |-> WholeDays(Sub(Now, eval.in[1].DueDate)),
                prev |-> eval.prev]
    /\ UNCHANGED machine

CallRemainingBalance(pm) ==
    /\ eval = NoEval
    /\ eval' = [op |-> "RemainingBalance", in |-> <<pm>>, out |-> RemainingBalance(pm)]
    /\ UNCHANGED machine

CallCheckLate(pm) ==
    /\ eval = NoEval
    /\ eval' = [op |-> "CheckLate", in |-> <<pm>>, out |-> CheckLate(pm)]
    /\ UNCHANGED machine

CallIsFullyPaid(pm) ==
    /\ eval = NoEval
    /\ eval' = [op |-> "IsFullyPaid", in |-> <<pm>>, out |-> IsFullyPaid(pm)]
    /\ UNCHANGED machine

CallIsPartiallyPaid(pm) ==
    /\ eval = NoEval
    /\ eval' = [op |-> "IsPartiallyPaid", in |-> <<pm>>, out |-> IsPartiallyPaid(pm)]
    /\ UNCHANGED machine

CallIsPaid(pm) ==
    /\ eval = NoEval
    /\ eval' = [op |-> "IsPaid", in |-> <<pm>>, out |-> IsPaid(pm)]
    /\ UNCHANGED machine

\* The caller takes the result of a method.
MethodReturn ==
    /\ eval.op \in {"IsOverdue", "DaysOverdue", "RemainingBalance", "CheckLate",
                    "IsFullyPaid", "IsPartiallyPaid", "IsPaid"}
    /\ eval' = NoEval
    /\ UNCHANGED machine

NextPayment ==
    \/ TickEval
    \/ \E pm \in PaymentStructs :
         \/ CallIsOverdue(pm)
         \/ CallDaysOverdue(pm)
         \/ CallRemainingBalance(pm)
         \/ CallCheckLate(pm)
    \/ \E pm \in StatusStructs :
         \/ CallIsFullyPaid(pm)
         \/ CallIsPartiallyPaid(pm)
         \/ CallIsPaid(pm)
         \/ CallRemainingBalance(pm)
    \/ DaysOverdueElapsed
    \/ MethodReturn

SpecPayment == Init /\ [][NextPayment]_vars

\* Loans are originated with and without autoPayPastDue, backdated by one
\* and by two months; time passes, and the methods of payment are called on
\* the installments in the store.
OriginateSettled(p) ==
    /\ nextLoanID <= MaxLoans
    /\ \E termMonths \in 1..MaxTerm, autoPayPastDue \in BOOLEAN,
          dateTaken \in {<<2023, 11, 30, 1>>, <<2023, 12, 31, 0>>} :
         \/ /\ nextUserID <= MaxUsers
            /\ InitializeUserWithLoan(p, 1200, 120, termMonths, 31, dateTaken,
                                      autoPayPastDue)
         \/ \E userID \in users :
              AddLoanToExistingUser(p, userID, 1200, 120, termMonths, 31, dateTaken,
                                    autoPayPastDue)

NextSettled ==
    \/ Tick
    \/ \E p \in Sequential : OriginateSettled(p) \/ Step(p)
    \/ \E pm \in payments :
         \/ CallIsFullyPaid(pm)
         \/ CallIsOverdue(pm)
         \/ CallDaysOverdue(pm)
         \/ CallCheckLate(pm)
    \/ DaysOverdueElapsed
    \/ MethodReturn

SpecSettled == Init /\ [][NextSettled]_vars

\* ------------------------------------------------------------------ claims
PaymentsOf(loanID) == {pm \in payments : pm.LoanID = loanID}

Returned(p) == pc[p] = "done"

Succeeded(p) == pc[p] = "done" /\ err[p].kind = "nil"

\* The loan of the aggregate a successful call returns.
ReturnedLoan(p) ==
    IF call[p].op = "InitializeUserWithLoan" THEN ret[p].Loans[1] ELSE ret[p]

\* The invalid loan parameters, as the claims list them.
InvalidParameters(c) ==
    \/ c.totalAmount <= 0
    \/ c.interestRate < 0
    \/ c.termMonths <= 0
    \/ c.dayDue < 1
    \/ c.dayDue > 31
    \/ c.dateTaken = <<1, 1, 1, 0>>

\* C1 as stated: in every reachable state every persisted loan has exactly as
\* many installments as its term length in months.
C1_CountAlwaysEqualsTerm ==
    \A l \in loans : Cardinality(PaymentsOf(l.ID)) = l.TermMonths

\* C1 amended: when an origination returns successfully, the loan it created
\* is persisted with the term asked for and has exactly that many installments.
C1_CountEqualsTermAtReturn ==
    \A p \in Procs :
        Succeeded(p) =>
            /\ ln[p] \in loans
            /\ ln[p].TermMonths = call[p].termMonths
            /\ Cardinality(PaymentsOf(ln[p].ID)) = ln[p].TermMonths

C1_Witness ==
    \E p \in Procs :
        /\ Succeeded(p)
        /\ call[p].termMonths = MaxTerm
        /\ Cardinality(PaymentsOf(ln[p].ID)) = MaxTerm

\* C2: a call of InitializeUserWithLoan or AddLoanToExistingUser with an
\* invalid loan parameter fails at once and leaves the store as it was when
\* the call was entered.
C2_InvalidParametersWriteNothing ==
    \A p \in Procs :
        (pc[p] # "idle" /\ InvalidParameters(call[p])) =>
            /\ pc[p] = "done"
            /\ err[p].kind = "invalid loan parameters"
            /\ store = pre[p]

C2_Witness ==
    \E p \in Procs :
        /\ Returned(p)
        /\ call[p].op = "AddLoanToExistingUser"
        /\ call[p].userID \in users
        /\ call[p].dayDue > 31
        /\ err[p].kind = "invalid loan parameters"

\* C3: when no persistence call fails, InitializeUserWithLoan returns an error
\* exactly when a loan parameter is invalid; a zero rate and a past or future
\* dateTaken are accepted.
C3_ErrorIffInvalid ==
    \A p \in Procs :
        (Returned(p) /\ call[p].op = "InitializeUserWithLoan" /\ ~dbFailed[p]) =>
            (err[p].kind # "nil" <=> InvalidParameters(call[p]))

C3_Witness ==
    \E p \in Procs :
        /\ Succeeded(p)
        /\ call[p].op = "InitializeUserWithLoan"
        /\ call[p].interestRate = 0
        /\ Before(Now, call[p].dateTaken)

\* C4: a successful origination returns a loan whose installment list has
\* exactly termMonths entries, numbered 1, 2, ..., termMonths in this order,
\* each carrying the new loan's identifier; these are the loan's rows.
C4_ScheduleNumbered ==
    \A p \in Procs :
        Succeeded(p) =>
            LET L == ReturnedLoan(p)
            IN  /\ L.ID = ln[p].ID
                /\ L.ID # 0
                /\ Len(L.Payments) = call[p].termMonths
                /\ \A k \in 1..Len(L.Payments) :
                       /\ L.Payments[k].PaymentNumber = k
                       /\ L.Payments[k].LoanID = L.ID
                /\ {L.Payments[k] : k \in 1..Len(L.Payments)} = PaymentsOf(L.ID)

C4_Witness ==
    \E p \in Procs :
        /\ Succeeded(p)
        /\ call[p].op = "AddLoanToExistingUser"
        /\ call[p].termMonths = MaxTerm
        /\ Len(ReturnedLoan(p).Payments) = MaxTerm


\* The installments the schedule of caller p has created so far.
Created(p) == {sched[p].payments[k] : k \in 1..Len(sched[p].payments)}

\* The instants the wall clock passes through.
ClockInstants == {ClockTimes[k] : k \in 1..Len(ClockTimes)}

\* C5: with autoPayPastDue = true, an installment whose due date is strictly
\* before the instant the schedule builder read is created with amountPaid =
\* the monthly payment and paidDate = dueDate; one whose due date is at or
\* after that instant is created with amountPaid = 0 and a zero paidDate.
C5_AutoSettlePartition ==
    \A p \in Procs :
        call[p].autoPayPastDue =>
            \A pm \in Created(p) :
                /\ pm \in payments
                /\ IF Before(pm.DueDate, sched[p].now)
                   THEN /\ pm.AmountPaid = calculateMonthlyPayment(call[p].totalAmount,
                                               call[p].interestRate, call[p].termMonths)
                        /\ pm.PaidDate = pm.DueDate
                   ELSE /\ pm.AmountPaid = <<0, 1>>
                        /\ pm.PaidDate = <<1, 1, 1, 0>>

C5_Witness ==
    \E p \in Procs :
        /\ call[p].autoPayPastDue
        /\ \E pm \in Created(p) : Before(pm.DueDate, sched[p].now) /\ pm.AmountPaid[1] > 0
        /\ \E pm \in Created(p) : ~Before(pm.DueDate, sched[p].now) /\ pm.AmountPaid[1] = 0

\* C6: with autoPayPastDue = false every installment is created with
\* amountPaid = 0 and a zero paidDate, also when its due date is in the past.
C6_NoAutoSettleAllUnpaid ==
    \A p \in Procs :
        ~call[p].autoPayPastDue =>
            \A pm \in Created(p) :
                /\ pm \in payments
                /\ pm.AmountPaid = <<0, 1>>
                /\ pm.PaidDate = <<1, 1, 1, 0>>

C6_Witness ==
    \E p \in Procs :
        /\ ~call[p].autoPayPastDue
        /\ Succeeded(p)
        /\ \A pm \in Created(p) : Before(pm.DueDate, sched[p].now)
        /\ Len(sched[p].payments) = MaxTerm

\* C7: when the date taken is the current instant (the Now entry points), no
\* installment is past due when the schedule is built, so every installment
\* is created unpaid, whatever autoPayPastDue is and however much time passes
\* between reading the date taken and building the schedule.
C7_NowCreatesAllUnpaid ==
    \A p \in Procs :
        call[p].dateTaken \in ClockInstants =>
            \A pm \in Created(p) :
                /\ pm.AmountPaid = <<0, 1>>
                /\ pm.PaidDate = <<1, 1, 1, 0>>

\* C8: when creating installment k fails, the call returns an error and the
\* store holds the loan with exactly its installments 1..k-1: nothing created
\* before is rolled back, no installment k or higher exists.
C8_PartialScheduleKept ==
    \A p \in Procs :
        (Returned(p) /\ err[p].kind = "failed to create payment schedule") =>
            LET k == sched[p].i
            IN  /\ k \in 1..call[p].termMonths
                /\ ln[p] \in loans
                /\ ln[p].UserID \in users
                /\ Cardinality(PaymentsOf(ln[p].ID)) = k - 1
                /\ {pm.PaymentNumber : pm \in PaymentsOf(ln[p].ID)} = 1..(k - 1)
                /\ users = pre[p][1] \cup ({usr[p]} \ {0})
                /\ loans = pre[p][2] \cup {ln[p]}
                /\ payments = pre[p][3] \cup PaymentsOf(ln[p].ID)

C8_Witness ==
    \E p \in Procs :
        /\ Returned(p)
        /\ err[p].kind = "failed to create payment schedule"
        /\ sched[p].i = MaxTerm
        /\ MaxTerm > 1
        /\ PaymentsOf(ln[p].ID) # {}

\* C9: in InitializeUserWithLoan a failure of the borrower's creation leaves
\* the store as it was; a failure of the loan's creation leaves the new
\* borrower persisted, with no loan and no installment created.
C9_StageFailures ==
    \A p \in Procs :
        (Returned(p) /\ call[p].op = "InitializeUserWithLoan") =>
            /\ err[p].kind = "failed to create User" => store = pre[p]
            /\ err[p].kind = "failed to create Loan" =>
                   /\ usr[p] # 0
                   /\ usr[p] \notin pre[p][1]
                   /\ users = pre[p][1] \cup {usr[p]}
                   /\ loans = pre[p][2]
                   /\ payments = pre[p][3]
                   /\ \A l \in loans : l.UserID # usr[p]

C9_Witness ==
    \E p \in Procs :
        /\ Returned(p)
        /\ call[p].op = "InitializeUserWithLoan"
        /\ err[p].kind = "failed to create Loan"
        /\ usr[p] \in users

\* C10: AddLoanToExistingUser with valid loan parameters and a borrower
\* identifier that is not in the store fails with a not-found error and
\* creates no loan and no installment.
C10_UnknownBorrowerRejected ==
    \A p \in Procs :
        (/\ pc[p] # "idle"
         /\ call[p].op = "AddLoanToExistingUser"
         /\ ~InvalidParameters(call[p])
         /\ call[p].userID \notin pre[p][1]) =>
            /\ pc[p] \in {"GetUserByID", "done"}
            /\ Returned(p) => /\ err[p].kind = "User not found"
                              /\ err[p].userID = call[p].userID
            /\ loans = pre[p][2]
            /\ payments = pre[p][3]

C10_Witness ==
    \E p \in Procs :
        /\ Returned(p)
        /\ call[p].op = "AddLoanToExistingUser"
        /\ ~InvalidParameters(call[p])
        /\ call[p].userID \notin users
        /\ users # {}
        /\ err[p].kind = "User not found"

\* The lengths of the twelve months of a year of the Gregorian calendar.
MonthLengths(year) ==
    LET feb == IF year % 400 = 0 THEN 29
               ELSE IF year % 100 = 0 THEN 28
               ELSE IF year % 4 = 0 THEN 29 ELSE 28
    IN  <<31, feb, 31, 30, 31, 30, 31, 31, 30, 31, 30, 31>>

\* The calendar month that is k months after the month of startDate.
TargetMonth(startDate, k) ==
    LET m0 == (startDate[2] - 1) + k
    IN  <<startDate[1] + (m0 \div 12), (m0 % 12) + 1>>

DueDateCalled == eval.op = "calculateDueDate"

\* C11: calculateDueDate clamps the day instead of overflowing: for every
\* start date, offset >= 1 and dayDue in 1..31 the result is a midnight in the
\* target month whose day is the smaller of dayDue and the number of days of
\* that month; start 2024-01-31 with dayDue 31 gives 2024-02-29, 2024-03-31,
\* 2024-04-30, 2024-05-31 for the offsets 1..4.
C11_DayClamped ==
    DueDateCalled =>
        LET startDate == eval.in[1]
            k == eval.in[2]
            dayDue == eval.in[3]
            len == MonthLengths(eval.out[1])[eval.out[2]]
        IN  /\ eval.out[2] = TargetMonth(startDate, k)[2]
            /\ eval.out[3] = IF dayDue < len THEN dayDue ELSE len
            /\ eval.out[4] = 0
            /\ (startDate = <<2024, 1, 31, 0>> /\ dayDue = 31 /\ k <= 4) =>
                   eval.out = << <<2024, 2, 29, 0>>, <<2024, 3, 31, 0>>,
                                 <<2024, 4, 30, 0>>, <<2024, 5, 31, 0>> >>[k]

C11_Witness ==
    /\ DueDateCalled
    /\ eval.in = << <<2024, 1, 31, 0>>, 1, 31 >>
    /\ eval.out = <<2024, 2, 29, 0>>

\* C12: the result of calculateDueDate falls in the calendar month obtained
\* by adding the offset to the start date's month, wrapping past December and
\* adding one year per wrap, for every offset >= 1, offsets of 12 and more
\* included: start 2024-01-15, offset 12, dayDue 15 gives 2025-01-15.
C12_MonthWithYearRollover ==
    DueDateCalled =>
        LET startDate == eval.in[1]
            k == eval.in[2]
        IN  /\ <<eval.out[1], eval.out[2]>> = TargetMonth(startDate, k)
            /\ eval.in = << <<2024, 1, 15, 0>>, 12, 15 >> => eval.out = <<2025, 1, 15, 0>>

C12_Witness ==
    /\ DueDateCalled
    /\ eval.in[1] = <<2023, 12, 31, 1>>
    /\ eval.in[2] = MaxOffset
    /\ eval.in[2] > 24
    /\ eval.out[1] = 2026

\* C13: all installments created by one origination carry the identical
\* amountDue, the monthly payment computed once for the loan from principal,
\* annual rate and term; so do the rows persisted for the loan.
C13_IdenticalAmountDue ==
    \A p \in Procs :
        LET monthly == calculateMonthlyPayment(call[p].totalAmount,
                           call[p].interestRate, call[p].termMonths)
        IN  /\ \A a \in Created(p), b \in Created(p) : a.AmountDue = b.AmountDue
            /\ \A pm \in Created(p) : pm.AmountDue = monthly /\ pm \in payments
            /\ ln[p].ID # 0 => \A pm \in PaymentsOf(ln[p].ID) : pm.AmountDue = monthly

C13_Witness ==
    \E p \in Procs :
        /\ Succeeded(p)
        /\ call[p].interestRate > 0
        /\ call[p].termMonths = MaxTerm
        /\ MaxTerm > 1
        /\ Cardinality(Created(p)) = MaxTerm
        /\ Cardinality({pm.AmountDue : pm \in PaymentsOf(ln[p].ID)}) = 1

MonthlyPaymentCalled == eval.op = "calculateMonthlyPayment"

\* The sum of n installments of the amount a.
RECURSIVE SumOfInstallments(_, _)
SumOfInstallments(a, n) ==
    IF n = 0 THEN <<0, 1>> ELSE RatAdd(SumOfInstallments(a, n - 1), a)

TotalPaid == RatMulInt(eval.out, eval.in[3])

\* principal * (1 + annualRate), the annual rate being eval.in[2] percent.
Ceiling == Rat(eval.in[1] * (100 + eval.in[2]), 100)

\* C15 as stated: for every annualRate > 0, principal > 0 and termMonths >= 1
\* the total paid, monthly payment * termMonths, strictly exceeds the
\* principal and is at most principal * (1 + annualRate).
C15_TotalWithinCeiling ==
    (MonthlyPaymentCalled /\ eval.in[2] > 0) =>
        /\ RatLess(<<eval.in[1], 1>>, TotalPaid)
        /\ ~RatLess(Ceiling, TotalPaid)

\* C15 amended: for every annualRate > 0, principal > 0 and termMonths >= 1
\* the total paid strictly exceeds the principal; for terms of at most 12
\* months it is at most principal * (1 + annualRate).
C15_TotalAbovePrincipal ==
    (MonthlyPaymentCalled /\ eval.in[2] > 0) =>
        /\ RatLess(<<eval.in[1], 1>>, TotalPaid)
        /\ eval.in[3] <= 12 => ~RatLess(Ceiling, TotalPaid)

C15_Witness ==
    /\ MonthlyPaymentCalled
    /\ eval.in = <<12, 1200, 12>>
    /\ RatLess(<<12, 1>>, TotalPaid)
    /\ RatLess(TotalPaid, Ceiling)

\* C16: IsOverdue is true exactly when the instant it reads is strictly after
\* the due date and amountPaid < amountDue: an installment paid exactly or
\* overpaid is never overdue, and none is overdue at its due instant.
C16_OverdueIffLateAndUnpaid ==
    eval.op = "IsOverdue" =>
        LET pm == eval.in[1]
            now == eval.in[2]
        IN  /\ eval.out <=> (/\ Before(pm.DueDate, now)
                              /\ pm.AmountPaid[1] * pm.AmountDue[2]
                                    < pm.AmountDue[1] * pm.AmountPaid[2])
            /\ pm.AmountPaid[1] * pm.AmountDue[2] >= pm.AmountDue[1] * pm.AmountPaid[2]
                   => ~eval.out
            /\ now = pm.DueDate => ~eval.out

C16_Witness ==
    /\ eval.op = "IsOverdue"
    /\ eval.in[2] = eval.in[1].DueDate
    /\ eval.in[1].AmountPaid = <<0, 1>>
    /\ ~eval.out

\* The ticks from instant u to instant t, counted day by day.
ElapsedTicks(u, t) ==
    (DayNumber(t) - DayNumber(u)) * 2 + (t[4] - u[4])

\* C17: DaysOverdue returns 0 when the installment is not overdue, and
\* otherwise the number of whole 24-hour days from the due date to the
\* instant it reads, truncated downward.
C17_DaysOverdueWholeDays ==
    eval.op = "DaysOverdue" =>
        LET pm == eval.in[1]
            overdue == /\ Before(pm.DueDate, eval.in[2])
                       /\ RatLess(pm.AmountPaid, pm.AmountDue)
        IN  IF overdue
            THEN eval.out = ElapsedTicks(pm.DueDate, eval.in[3]) \div 2
            ELSE eval.out = 0

\* C18: RemainingBalance is max(0, amountDue - amountPaid) for every pair of
\* amounts: it is never negative and it is 0 for an overpaid installment.
C18_RemainingBalanceClamped ==
    eval.op = "RemainingBalance" =>
        LET pm == eval.in[1]
            diff == RatSub(pm.AmountDue, pm.AmountPaid)
        IN  /\ eval.out = IF diff[1] > 0 THEN diff ELSE <<0, 1>>
            /\ eval.out[1] >= 0
            /\ RatLess(pm.AmountDue, pm.AmountPaid) => eval.out = <<0, 1>>

C18_Witness ==
    /\ eval.op = "RemainingBalance"
    /\ eval.in[1].AmountDue = <<100, 1>>
    /\ eval.in[1].AmountPaid = <<150, 1>>
    /\ eval.out = <<0, 1>>

\* C19: the paid-late predicate is true exactly when a paid date is present
\* and strictly after the due date: paying before or on the due date is not
\* late, and an installment with a zero paid date is never late.
C19_LateIffPaidAfterDue ==
    eval.op = "CheckLate" =>
        LET pm == eval.in[1]
        IN  eval.out <=> (pm.PaidDate # <<1, 1, 1, 0>> /\ Before(pm.DueDate, pm.PaidDate))

\* The loan row of an aggregate.
RowOf(L) ==
    [ID |-> L.ID, UserID |-> L.UserID, TotalAmount |-> L.TotalAmount,
     InterestRate |-> L.InterestRate, TermMonths |-> L.TermMonths,
     DayDue |-> L.DayDue, Status |-> L.Status, DateTaken |-> L.DateTaken]

\* The aggregate L is a persisted loan with all of its persisted installments,
\* in the order of their numbers.
FullLoan(L) ==
    /\ RowOf(L) \in loans
    /\ {L.Payments[k] : k \in 1..Len(L.Payments)} = PaymentsOf(L.ID)
    /\ Len(L.Payments) = Cardinality(PaymentsOf(L.ID))
    /\ \A j \in 1..Len(L.Payments), k \in 1..Len(L.Payments) :
           j < k => L.Payments[j].PaymentNumber < L.Payments[k].PaymentNumber

\* The schedule of the persisted loan l was created completely.
ScheduleComplete(l) ==
    {pm.PaymentNumber : pm \in PaymentsOf(l.ID)} = 1..l.TermMonths

\* C20: after a borrower is originated with a loan and further loans are
\* added, GetFullUserByID returns the borrower with all of their loans in
\* creation order, each with all of its installments, and GetFullLoanByID
\* returns the loan with all termMonths installments.
C20_FullAggregates ==
    \A p \in Procs :
        /\ (Succeeded(p) /\ call[p].op = "GetFullUserByID") =>
               LET U == ret[p]
               IN  /\ U.ID = call[p].userID
                   /\ U.ID \in users
                   /\ {RowOf(U.Loans[k]) : k \in 1..Len(U.Loans)}
                         = {l \in loans : l.UserID = U.ID}
                   /\ \A j \in 1..Len(U.Loans), k \in 1..Len(U.Loans) :
                          j < k => U.Loans[j].ID < U.Loans[k].ID
                   /\ \A k \in 1..Len(U.Loans) :
                          /\ FullLoan(U.Loans[k])
                          /\ ScheduleComplete(RowOf(U.Loans[k])) =>
                                 /\ Len(U.Loans[k].Payments) = U.Loans[k].TermMonths
                                 /\ \A j \in 1..Len(U.Loans[k].Payments) :
                                        U.Loans[k].Payments[j].PaymentNumber = j
        /\ (Succeeded(p) /\ call[p].op = "GetFullLoanByID") =>
               LET L == ret[p]
               IN  /\ L.ID = call[p].loanID
                   /\ FullLoan(L)
                   /\ ScheduleComplete(RowOf(L)) =>
                          /\ Len(L.Payments) = L.TermMonths
                          /\ \A j \in 1..Len(L.Payments) : L.Payments[j].PaymentNumber = j

C20_Witness ==
    \E p \in Procs :
        /\ Succeeded(p)
        /\ call[p].op = "GetFullUserByID"
        /\ Len(ret[p].Loans) = MaxReadLoans
        /\ MaxReadLoans > 1
        /\ \A k \in 1..Len(ret[p].Loans) :
               /\ ScheduleComplete(RowOf(ret[p].Loans[k]))
               /\ Len(ret[p].Loans[k].Payments) = ret[p].Loans[k].TermMonths
        /\ \E k \in 1..Len(ret[p].Loans) : Len(ret[p].Loans[k].Payments) = MaxTerm

\* The installment numbers persisted for a loan.
NumbersOf(loanID) == {pm.PaymentNumber : pm \in PaymentsOf(loanID)}

\* C21: the installments of a loan are created in strictly ascending order
\* of their numbers (a new installment's number is one more than the number
\* of installments the loan has, so i + 1 is never created before i exists),
\* and GetPaymentsByLoanID and GetFullLoanByID return them in strictly
\* ascending order of their numbers.
C21_AscendingOrder ==
    /\ [](/\ \A l \in loans : NumbersOf(l.ID) = 1..Cardinality(PaymentsOf(l.ID))
          /\ \A l \in loans :
                LET rows == GetPaymentsByLoanID(l.ID)
                IN  /\ Len(rows) = Cardinality(PaymentsOf(l.ID))
                    /\ \A j \in 1..Len(rows) : rows[j].PaymentNumber = j
          /\ \A p \in Procs :
                (Succeeded(p) /\ call[p].op = "GetFullLoanByID") =>
                    \A j \in 1..Len(ret[p].Payments), k \in 1..Len(ret[p].Payments) :
                        j < k => ret[p].Payments[j].PaymentNumber
                                    < ret[p].Payments[k].PaymentNumber)
    /\ [][\A pm \in payments' \ payments :
             /\ \A old \in PaymentsOf(pm.LoanID) : old.PaymentNumber < pm.PaymentNumber
             /\ pm.PaymentNumber = Cardinality(PaymentsOf(pm.LoanID)) + 1]_vars

C21_Witness ==
    \E p \in Procs :
        /\ Succeeded(p)
        /\ call[p].op = "GetFullLoanByID"
        /\ MaxTerm > 1
        /\ Len(ret[p].Payments) = MaxTerm
        /\ ret[p].Payments[1].PaymentNumber = 1
        /\ ret[p].Payments[MaxTerm].PaymentNumber = MaxTerm

\* The two callers have originations in progress at the same time, each with
\* a loan of its own.
Overlapping ==
    /\ \A p \in Procs : ln[p] # NoLoan
    /\ \A p \in Procs, q \in Procs : p # q => ln[p].ID # ln[q].ID

\* C22: when schedules are built for different loans at the same time, under
\* every interleaving each loan whose origination succeeds has exactly its
\* own term-many installments, numbered 1..term and carrying its own amount
\* due, and no installment created by one origination is attached to the
\* other's loan.
C22_ConcurrentSchedulesSeparate ==
    /\ \A p \in Procs :
          Succeeded(p) =>
              /\ Cardinality(PaymentsOf(ln[p].ID)) = call[p].termMonths
              /\ NumbersOf(ln[p].ID) = 1..call[p].termMonths
              /\ \A pm \in PaymentsOf(ln[p].ID) :
                    pm.AmountDue = calculateMonthlyPayment(call[p].totalAmount,
                                       call[p].interestRate, call[p].termMonths)
              /\ PaymentsOf(ln[p].ID) = {sched[p].payments[j] : j \in 1..Len(sched[p].payments)}
    /\ \A p \in Procs, q \in Procs :
          (p # q /\ ln[p] # NoLoan /\ ln[q] # NoLoan) =>
              /\ ln[p].ID # ln[q].ID
              /\ \A j \in 1..Len(sched[p].payments) :
                    sched[p].payments[j].LoanID # ln[q].ID

C22_Witness ==
    /\ Overlapping
    /\ \A p \in Procs : Succeeded(p)
    /\ \E p \in Procs, q \in Procs :
          /\ call[p].termMonths # call[q].termMonths
          /\ Cardinality(PaymentsOf(ln[p].ID)) = MaxTerm
          /\ \E a \in PaymentsOf(ln[p].ID), b \in PaymentsOf(ln[q].ID) :
                a.ID < b.ID
          /\ \E a \in PaymentsOf(ln[p].ID), b \in PaymentsOf(ln[q].ID) :
                a.ID > b.ID

\* The positions of an origination at which its next step is one
\* persistence call.
BeforeCreate == {"CreateUser", "GetUserByID", "CreateLoan"}

\* C23: the origination workflow never retries. A step in which a
\* persistence call was made (a row was written or the call failed) moves the
\* origination past that call: the borrower and the loan are attempted once,
\* installment i is attempted once and followed by installment i + 1; the
\* first failing persistence call ends the origination, and between that
\* failure and the return the store is not touched.
C23_NeverRetries ==
    [][\A p \in Procs :
         /\ (pc[p] \in BeforeCreate /\ pc'[p] = pc[p]) =>
                (store' = store /\ dbFailed'[p] = dbFailed[p])
         /\ (pc[p] = "loop" /\ pc'[p] = "loop") =>
                \/ store' = store /\ sched'[p] = sched[p] /\ dbFailed'[p] = dbFailed[p]
                \/ /\ sched'[p].i = sched[p].i + 1
                   /\ ~dbFailed'[p]
                   /\ \E pm \in payments' \ payments :
                         /\ payments' = payments \cup {pm}
                         /\ pm.PaymentNumber = sched[p].i
                         /\ pm.LoanID = ln[p].ID
         /\ (~dbFailed[p] /\ dbFailed'[p]) =>
                (pc'[p] = "done" /\ store' = store)
         /\ (pc[p] = "done" /\ dbFailed[p]) =>
                (store' = store /\ pc'[p] \in {"done", "idle"})]_vars

C23_Witness ==
    \E p \in Procs :
        /\ Returned(p)
        /\ dbFailed[p]
        /\ err[p].kind = "failed to create Loan"
        /\ call[p].op = "InitializeUserWithLoan"
        /\ usr[p] \in users \ pre[p][1]
        /\ loans = pre[p][2]
        /\ payments = pre[p][3]

\* C24: when an origination fails while creating installment k, the error
\* returned names k, the number of the one installment of the loan that is
\* missing next (installments 1..k-1 are persisted, k is not), and the
\* identifier of the persisted loan whose schedule was being built.
C24_ErrorNamesInstallmentAndLoan ==
    \A p \in Procs :
        (Returned(p) /\ err[p].kind = "failed to create payment schedule") =>
            /\ err[p].paymentNum \in 1..call[p].termMonths
            /\ NumbersOf(ln[p].ID) = 1..(err[p].paymentNum - 1)
            /\ err[p].loanID = ln[p].ID
            /\ \E l \in loans \ pre[p][2] : l.ID = err[p].loanID

C24_Witness ==
    \E p \in Procs :
        /\ Returned(p)
        /\ err[p].kind = "failed to create payment schedule"
        /\ MaxTerm > 1
        /\ err[p].paymentNum = MaxTerm
        /\ err[p].loanID = ln[p].ID
        /\ Cardinality(PaymentsOf(ln[p].ID)) = MaxTerm - 1

\* C30: whenever InitializeUserWithLoan or AddLoanToExistingUser returns an
\* error, the value returned with it is the empty aggregate: no identifier,
\* no loans, no installments, also when the call had persisted a borrower, a
\* loan or installments before it failed.
C30_ErrorReturnsEmptyAggregate ==
    \A p \in Procs :
        (Returned(p) /\ err[p].kind # "nil") =>
            /\ call[p].op = "InitializeUserWithLoan" =>
                  ret[p] = [ID |-> 0, Loans |-> <<>>]
            /\ call[p].op = "AddLoanToExistingUser" =>
                  /\ ret[p].ID = 0
                  /\ ret[p].UserID = 0
                  /\ ret[p].Payments = <<>>
                  /\ ret[p] = WithPayments(NoLoan, <<>>)

C30_Witness ==
    \E p \in Procs :
        /\ Returned(p)
        /\ err[p].kind = "failed to create payment schedule"
        /\ call[p].op = "InitializeUserWithLoan"
        /\ usr[p] \in users \ pre[p][1]
        /\ ln[p] \in loans \ pre[p][2]
        /\ PaymentsOf(ln[p].ID) # {}
        /\ ret[p] = [ID |-> 0, Loans |-> <<>>]

AutoSettled(pm) == pm.AmountPaid # FromInt(0)

\* C26: every installment auto-settled by the schedule builder has amountPaid
\* equal to amountDue and paidDate equal to dueDate, and a method called on
\* it at any later instant finds it fully paid, not overdue, zero days
\* overdue and not paid late.
C26_AutoSettledStaysSettled ==
    /\ \A pm \in payments :
          AutoSettled(pm) => (pm.AmountPaid = pm.AmountDue /\ pm.PaidDate = pm.DueDate)
    /\ (eval.op \in {"IsFullyPaid", "IsOverdue", "DaysOverdue", "CheckLate"}
            /\ AutoSettled(eval.in[1])) =>
          /\ eval.op = "IsFullyPaid" => eval.out = TRUE
          /\ eval.op = "IsOverdue" => eval.out = FALSE
          /\ eval.op = "DaysOverdue" => eval.out = 0
          /\ eval.op = "CheckLate" => eval.out = FALSE

C26_Witness ==
    /\ eval.op = "DaysOverdue"
    /\ eval.in[1] \in payments
    /\ AutoSettled(eval.in[1])
    /\ Before(eval.in[1].DueDate, eval.in[2])
    /\ eval.in[1].PaidDate = eval.in[1].DueDate
    /\ eval.out = 0
    /\ clock = Len(ClockTimes)

\* C29: for every pair of amounts, IsFullyPaid (amountPaid >= amountDue) and
\* IsPartiallyPaid (0 < amountPaid < amountDue) are never both true,
\* IsPartiallyPaid implies IsPaid, and RemainingBalance is 0 if and only if
\* IsFullyPaid.
C29_PaidStatusesConsistent ==
    LET pm == eval.in[1]
    IN  /\ eval.op = "IsFullyPaid" =>
              /\ eval.out = ~RatLess(pm.AmountPaid, pm.AmountDue)
              /\ ~(eval.out /\ IsPartiallyPaid(pm))
              /\ eval.out <=> (RemainingBalance(pm) = FromInt(0))
        /\ eval.op = "IsPartiallyPaid" =>
              /\ eval.out = (RatLess(FromInt(0), pm.AmountPaid)
                                /\ RatLess(pm.AmountPaid, pm.AmountDue))
              /\ ~(eval.out /\ IsFullyPaid(pm))
              /\ eval.out => IsPaid(pm)
        /\ eval.op = "IsPaid" => (IsPartiallyPaid(pm) => eval.out)
        /\ eval.op = "RemainingBalance" =>
              ((eval.out = FromInt(0)) <=> IsFullyPaid(pm))

C29_Witness ==
    /\ eval.op = "IsPartiallyPaid"
    /\ eval.out = FALSE
    /\ eval.in[1].AmountPaid = eval.in[1].AmountDue
    /\ IsFullyPaid(eval.in[1])
    /\ IsPaid(eval.in[1])
    /\ RemainingBalance(eval.in[1]) = FromInt(0)

\* C27: within one loan's schedule, whose installment i is due on
\* calculateDueDate(dateTaken, i, dayDue), the due date of installment i is
\* strictly later than dateTaken, falls in the i-th calendar month after the
\* month of dateTaken, and is strictly earlier than the due date of
\* installment i + 1, which falls in the calendar month after it; for every
\* dateTaken and dayDue in 1..31.
C27_DueDatesIncrease ==
    DueDateCalled =>
        LET dateTaken == eval.in[1]
            i == eval.in[2]
            dayDue == eval.in[3]
            following == calculateDueDate(dateTaken, i + 1, dayDue)
        IN  /\ Before(dateTaken, eval.out)
            /\ <<eval.out[1], eval.out[2]>> = TargetMonth(dateTaken, i)
            /\ Before(eval.out, following)
            /\ <<following[1], following[2]>> = TargetMonth(eval.out, 1)

C27_Witness ==
    /\ DueDateCalled
    /\ eval.in = << <<2023, 12, 31, 1>>, 1, 1 >>
    /\ eval.out = <<2024, 1, 1, 0>>
    /\ calculateDueDate(eval.in[1], 2, 1) = <<2024, 2, 1, 0>>

\* C28: with an installment's amounts and due date unchanged, IsOverdue is
\* false at every instant up to and including the due date; an installment
\* with amountPaid < amountDue is overdue at every instant after the due
\* date; a call that follows a call on the same installment never turns
\* from overdue to not overdue, and DaysOverdue called again never returns
\* less than it returned before.
C28_OverdueMonotone ==
    /\ eval.op = "IsOverdue" =>
          LET pm == eval.in[1]
              now == eval.in[2]
          IN  /\ ~Before(pm.DueDate, now) => eval.out = FALSE
              /\ (Before(pm.DueDate, now) /\ RatLess(pm.AmountPaid, pm.AmountDue)) =>
                     eval.out = TRUE
              /\ eval.prev => eval.out
    /\ eval.op = "DaysOverdue" => eval.prev <= eval.out

\* DaysOverdue returned 5 and, called again a day and a half later, 6.
C28_Witness ==
    /\ eval.op = "DaysOverdue"
    /\ eval.in[1].DueDate = <<2024, 1, 26, 0>>
    /\ eval.in[3] = ClockTimes[2]
    /\ eval.prev = 5
    /\ eval.out = 6

====
